---- MODULE Spec2Model ----
(***************************************************************************)
(* Model of the refresh-token strategy of mercury-auth                     *)
(* (src/domain/strategies/refresh-token.strategy.ts).                      *)
(*                                                                         *)
(* One RefreshTokenStrategy instance serves requests.  authenticate() is   *)
(* an async method with a single await (line 80): everything up to the     *)
(* subscription of the directory lookup runs synchronously (Authenticate), *)
(* the directory answers later (DirectoryRespond), and the continuation    *)
(* after the await decides the outcome (Resume).  The clock and the        *)
(* directory belong to the environment and move between these steps.       *)
(***************************************************************************)
EXTENDS Integers, FiniteSets, Sequences, TLC

\* ---------------------------------------------------------------- bounds
MaxSec == 1      \* the clock runs over the seconds 0..MaxSec
MaxExp == 1      \* tokens expire at one of the seconds 1..MaxExp
MaxVer == 2      \* a directory record is rewritten at most up to this stamp
MaxTtl == 2      \* token lifetimes are configured as 1..MaxTtl seconds

\* ------------------------------------------------------------- constants
MsPerSec == 1000                 \* payload.exp * 1000
HttpStatusUNAUTHORIZED == 401    \* HttpStatus.UNAUTHORIZED

\* Millisecond offsets inside a second that the clock can show.
SubMs == {0, 1}
ClockValues == {s * MsPerSec + d : s \in 0..MaxSec, d \in SubMs}

Usernames == {"alice", "bob"}
Reqs == {"r1", "r2"}

\* AuthTransferTokenMethod
COOKIE_ONLY == "cookie"
BEARER_ONLY == "bearer"
BOTH == "both"
AuthTransferTokenMethod == {COOKIE_ONLY, BEARER_ONLY, BOTH}

\* IAuthDefinitions.redactedFields as configured; "salt" is a field that no
\* user record has.
RedactedFieldsOptions == {{"password"}, {"password", "salt"}}

\* ------------------------------------------------------ values and tokens
\* JavaScript values that reach the strategy.  Every value is a record with
\* the same fields so that any two of them can be compared.
Val(kind, sig, username, exp) ==
  [kind |-> kind, sig |-> sig, username |-> username, exp |-> exp]

Undefined == Val("undefined", "-", "-", 0)
Null == Val("null", "-", "-", 0)
EmptyString == Val("empty", "-", "-", 0)
\* a non-empty string that is not a token at all
Malformed == Val("malformed", "-", "-", 0)
\* a well-formed token for username, expiring at second exp, signed with sig
Jwt(sig, username, exp) == Val("jwt", sig, username, exp)

GoodSig == "good"
ForgedSig == "forged"

\* JavaScript truthiness: undefined, null and "" are falsy.
Truthy(v) == v.kind \notin {"undefined", "null", "empty"}

\* a || b
OrElse(a, b) == IF Truthy(a) THEN a ELSE b

RefreshValues ==
  {Undefined, EmptyString, Malformed, Jwt(ForgedSig, "alice", MaxExp)}
    \cup {Jwt(GoodSig, u, e) : u \in Usernames, e \in 1..MaxExp}

AccessValues == {Undefined, Jwt(GoodSig, "alice", MaxExp)}

CookieNames == {"RefreshToken", "AccessToken"}
HeaderNames == {"refresh-token", "authorization"}

\* IHttpRequest, as far as token transport is concerned.
MkRequest(rc, ac, rh, ah) ==
  [cookies |-> [n \in CookieNames |-> IF n = "RefreshToken" THEN rc ELSE ac],
   headers |-> [n \in HeaderNames |-> IF n = "refresh-token" THEN rh ELSE ah]]

\* A client sends its access token in at most one of the two access channels.
Requests ==
  {q \in {MkRequest(rc, ac, rh, ah) :
            rc \in RefreshValues, ac \in AccessValues,
            rh \in RefreshValues, ah \in AccessValues} :
     ~(Truthy(q.cookies["AccessToken"]) /\ Truthy(q.headers["authorization"]))}

NoRequest == MkRequest(Undefined, Undefined, Undefined, Undefined)

getRequestCookie(request, name) == request.cookies[name]
getRequestHeader(request, name) == request.headers[name]

\* ------------------------------------------------------------ user records
NoUser == [kind |-> "undefined"]
LookupError == [kind |-> "error"]

\* IAuthUserEntity as the directory stores it.
UserRecord(username, stamp) ==
  [kind |-> "user", username |-> username, password |-> "hash",
   updatedAt |-> stamp]

\* hideRedactedFields(redactedFields)(user)
hideRedactedFields(fields, user) ==
  IF user = NoUser THEN NoUser
  ELSE [f \in (DOMAIN user) \ fields |-> user[f]]

\* ------------------------------------------------------------------ state
VARIABLES
  authDefinitions,   \* IAuthDefinitions injected into the strategy
  jwtFromRequest,    \* the transfer method captured by the two extractors
  codecChecksExpiry, \* whether TokenService.decodeRefreshToken checks exp
  clock,             \* wall clock, milliseconds
  directory,         \* AuthRepository: username -> record or NoUser
  pc,                \* per request: position inside authenticate()
  req,               \* per request: the request being authenticated
  token,             \* per request: const token (line 74)
  decodeArg,         \* per request: the argument decodeRefreshToken got
  jwtPayload,        \* per request: const jwtPayload (line 76)
  now,               \* per request: the clock when authenticate() ran
  lookupArg,         \* per request: argument of getAuthUserByUsername
  liveRecord,        \* per request: what the directory held when it answered
  user,              \* per request: what validate() resolved / rejected with
  outcome,           \* per request: the terminal call made on the strategy
  trace,             \* per request: the calls made so far, and what other
                     \* requests had ended when this one began
  guard,             \* the request the global guard is evaluating
  codec,             \* the token the codec is issuing or decoding
  loggedOut          \* the refresh tokens whose holders have logged out

vars == <<authDefinitions, jwtFromRequest, codecChecksExpiry, clock, directory,
          pc, req, token, decodeArg, jwtPayload, now, lookupArg, liveRecord,
          user, outcome, trace, guard, codec, loggedOut>>

config == <<authDefinitions, jwtFromRequest, codecChecksExpiry>>
environment == <<clock, directory>>
engine == <<guard, codec, loggedOut>>

NoOutcome == [kind |-> "none"]
\* passport-strategy: this.fail(status), this.success(user)
fail(status) == [kind |-> "fail", status |-> status]
success(u) == [kind |-> "success", user |-> u]
\* the promise returned by authenticate() rejected
Rejected == [kind |-> "rejected"]

NoTime == 0 - 1
\* decodeRefreshToken was not called
NotCalled == Val("notcalled", "-", "-", 0)
NoUsername == "-"
\* The jwt part of IAuthDefinitions: secret, expiresIn, refreshTokenExpiresIn.
JwtDefinitions ==
  [secret : {GoodSig}, expiresIn : 1..MaxTtl, refreshTokenExpiresIn : 1..MaxTtl]

CodecIdle(jwt) ==
  [pc |-> "idle", jwt |-> jwt, class |-> "-", username |-> NoUsername,
   issuedAt |-> NoTime, token |-> Undefined, payload |-> Undefined]

NoCodec == CodecIdle(CHOOSE jwt \in JwtDefinitions :
                       jwt.expiresIn = 1 /\ jwt.refreshTokenExpiresIn = 1)
NoTrace == [terminal |-> <<>>, decodes |-> 0, lookups |-> 0, prior |-> {}]

\* ------------------------------------------------------- token transport
\* Fault variant: the cookie is read whatever the transfer method is.
cookieExtractorAnyMode(transferTokenMethod, request) ==
  OrElse(getRequestCookie(request, "RefreshToken"), Null)

\* Fault variant: the access-token cookie is read instead.
cookieExtractorAccessCookie(transferTokenMethod, request) ==
  IF transferTokenMethod = BEARER_ONLY THEN Null
  ELSE OrElse(getRequestCookie(request, "AccessToken"), Null)

\* cookieExtractor(transferTokenMethod)(request)
cookieExtractor(transferTokenMethod, request) ==
  IF transferTokenMethod = BEARER_ONLY THEN Null
  ELSE OrElse(getRequestCookie(request, "RefreshToken"), Null)

\* Fault variant: the header is read whatever the transfer method is.
refreshTokenHeaderExtractorAnyMode(transferTokenMethod, request) ==
  OrElse(getRequestHeader(request, "refresh-token"), Null)

\* refreshTokenHeaderExtractor(transferTokenMethod)(request)
refreshTokenHeaderExtractor(transferTokenMethod, request) ==
  IF transferTokenMethod = COOKIE_ONLY THEN Null
  ELSE OrElse(getRequestHeader(request, "refresh-token"), Null)

\* passport-jwt ExtractJwt.fromExtractors: the extractors are tried in order
\* while no token was found; the result is the last value tried.
RECURSIVE fromExtractors(_)
fromExtractors(results) ==
  IF Len(results) = 1 \/ Truthy(Head(results)) THEN Head(results)
  ELSE fromExtractors(Tail(results))

\* Fault variant: the header extractor is listed before the cookie extractor.
ExtractTokenHeaderFirst(transferTokenMethod, request) ==
  fromExtractors(<<refreshTokenHeaderExtractor(transferTokenMethod, request),
                   cookieExtractor(transferTokenMethod, request)>>)

\* Fault variant: a cookie token that does not verify gives way to the header.
ExtractTokenFallback(transferTokenMethod, request) ==
  LET c == cookieExtractor(transferTokenMethod, request)
      h == refreshTokenHeaderExtractor(transferTokenMethod, request)
  IN IF Truthy(c) /\ ~(c.kind = "jwt" /\ c.sig = GoodSig) /\ Truthy(h) THEN h
     ELSE fromExtractors(<<c, h>>)

\* this.jwtFromRequest(req) as built by the constructor
ExtractToken(transferTokenMethod, request) ==
  fromExtractors(<<cookieExtractor(transferTokenMethod, request),
                   refreshTokenHeaderExtractor(transferTokenMethod, request)>>)

\* ------------------------------------------------------------ token codec
\* IJwtPayload
Payload(username, exp) == Val("payload", "-", username, exp)

\* TokenService.decodeRefreshToken(token): the payload of a well-formed,
\* correctly signed token, undefined otherwise.  A codec that checks expiry
\* itself does so on whole seconds.
decodeRefreshToken(tok, checksExpiry, nowMs) ==
  IF tok.kind = "jwt" /\ tok.sig = GoodSig
     /\ ~(checksExpiry /\ (nowMs \div MsPerSec) >= tok.exp)
  THEN Payload(tok.username, tok.exp)
  ELSE Undefined

\* ------------------------------------------------------------- validate()
\* Fault variant: isBefore in place of isAfter.
\* Fault variant: the expiry comparison never stops validate().
isExpiredNever(payload, nowMs) == FALSE

isExpiredBefore(payload, nowMs) == nowMs < payload.exp * MsPerSec

\* moment().isAfter(moment(payload.exp * 1000).toDate())
isExpired(payload, nowMs) == nowMs > payload.exp * MsPerSec

\* Fault variant: the lookup is keyed by a username other than the payload's.
LookupUsernameOther(res) == CHOOSE u \in Usernames : u # res.username

\* getAuthUserByUsername(res.username): the username that is looked up
LookupUsername(res) == res.username

\* Fault variant: the emitted record is passed on without the redaction map.
RedactPipeSkipped(redactedFields, record) == record

\* .pipe(map(hideRedactedFields(this.authDefinitions.redactedFields)))
RedactPipe(redactedFields, record) == hideRedactedFields(redactedFields, record)

\* Fault variant: a missing user is reported with a status of its own.
AuthenticateOutcomeNotFound(payload, u) ==
  IF u = LookupError THEN Rejected
  ELSE IF ~Truthy(payload) THEN fail(HttpStatusUNAUTHORIZED)
  ELSE IF ~Truthy(u) THEN fail(404)
  ELSE success(u)

\* Fault variant: a failed lookup is caught and handled as "no user".
AuthenticateOutcomeSwallowed(payload, u) ==
  IF u = LookupError \/ ~Truthy(payload) \/ ~Truthy(u)
  THEN fail(HttpStatusUNAUTHORIZED)
  ELSE success(u)

\* Fault variant: line 82 tests the payload only.
AuthenticateOutcomePayloadOnly(payload, u) ==
  IF u = LookupError THEN Rejected
  ELSE IF ~Truthy(payload) THEN fail(HttpStatusUNAUTHORIZED)
  ELSE success(u)

\* lines 82-86, and the await of line 80 rejecting when validate() rejects
AuthenticateOutcome(payload, u) ==
  IF u = LookupError THEN Rejected
  ELSE IF ~Truthy(payload) \/ ~Truthy(u) THEN fail(HttpStatusUNAUTHORIZED)
  ELSE success(u)

\* Fault variant: the else of line 84 is missing, success follows fail.
TerminalCallsNoElse(payload, u) ==
  IF u = LookupError THEN <<>>
  ELSE IF ~Truthy(payload) \/ ~Truthy(u)
       THEN <<fail(HttpStatusUNAUTHORIZED), success(u)>>
       ELSE <<success(u)>>

\* The calls of fail and success that lines 82-86 make, in order.
TerminalCalls(payload, u) ==
  LET o == AuthenticateOutcome(payload, u)
  IN IF o.kind \in {"fail", "success"} THEN <<o>> ELSE <<>>

\* ----------------------------------------------------------- global guard
\* Route metadata: @Public(), a match of definitions.ignoredRoutes,
\* @InternalOnly().
Routes == [public : BOOLEAN, ignored : BOOLEAN, internalOnly : BOOLEAN]

\* What a request carries for the guards: the Authorization: Basic header
\* against definitions.basicAuth, and its access token.
Credentials == [basic : {"none", "match", "mismatch"},
                access : {"none", "valid", "invalid"}]

NoRoute == [public |-> FALSE, ignored |-> FALSE, internalOnly |-> FALSE]
NoCredentials == [basic |-> "none", access |-> "none"]
NoGuard == [pc |-> "idle", route |-> NoRoute, creds |-> NoCredentials,
            mode |-> "-", resolutions |-> 0, decision |-> "-"]

\* Fault variant: no global guard is registered.
APP_GUARD_Missing == "none"

\* { provide: APP_GUARD, useClass: AuthGlobalGuard }
APP_GUARD == "AuthGlobalGuard"

\* GuardResolver: the first matching state wins.
ResolveGuardMode(route) ==
  IF route.public \/ route.ignored THEN "public"
  ELSE IF route.internalOnly THEN "basic"
  ELSE "token"

\* The mode that governs a route: the registered global guard resolves it;
\* without a global guard nothing guards the route.
GuardModeFor(route) ==
  IF APP_GUARD = "AuthGlobalGuard" THEN ResolveGuardMode(route) ELSE "unguarded"

\* The check of each mode.
EvaluateGuard(mode, creds) ==
  CASE mode = "public" -> "allowed"
    [] mode = "basic" -> IF creds.basic = "match" THEN "allowed" ELSE "denied"
    [] mode = "token" -> IF creds.access = "valid" THEN "allowed" ELSE "denied"
    [] OTHER -> "allowed"

GuardArrive(route, creds) ==
  /\ guard.pc = "idle"
  /\ guard' = [NoGuard EXCEPT !.pc = "arrived", !.route = route, !.creds = creds]
  /\ UNCHANGED <<config, environment, codec, loggedOut, pc, req, token, decodeArg, jwtPayload,
                 now, lookupArg, liveRecord, user, outcome, trace>>

GuardResolve ==
  /\ guard.pc = "arrived"
  /\ guard' = [guard EXCEPT !.pc = "resolved",
                            !.mode = GuardModeFor(guard.route),
                            !.resolutions = @ + 1]
  /\ UNCHANGED <<config, environment, codec, loggedOut, pc, req, token, decodeArg, jwtPayload,
                 now, lookupArg, liveRecord, user, outcome, trace>>

GuardEvaluate ==
  /\ guard.pc = "resolved"
  /\ guard' = [guard EXCEPT !.pc = "done",
                            !.decision = EvaluateGuard(guard.mode, guard.creds)]
  /\ UNCHANGED <<config, environment, codec, loggedOut, pc, req, token, decodeArg, jwtPayload,
                 now, lookupArg, liveRecord, user, outcome, trace>>

GuardLeave ==
  /\ guard.pc = "done"
  /\ guard' = NoGuard
  /\ UNCHANGED <<config, environment, codec, loggedOut, pc, req, token, decodeArg, jwtPayload,
                 now, lookupArg, liveRecord, user, outcome, trace>>

\* ------------------------------------------------------------ token issue
\* Fault variant: the module signs with the refresh-token lifetime.
JwtModuleOptionsRefreshTtl(jwt) ==
  [secret |-> jwt.secret, signOptions |-> [expiresIn |-> jwt.refreshTokenExpiresIn]]

\* JwtModule.registerAsync({ useFactory: (definitions) => ... })
JwtModuleOptions(jwt) ==
  [secret |-> jwt.secret, signOptions |-> [expiresIn |-> jwt.expiresIn]]

\* Signing: iat is the clock in whole seconds, exp = iat + expiresIn.
sign(username, secret, expiresIn, nowMs) ==
  Jwt(secret, username, (nowMs \div MsPerSec) + expiresIn)

\* TokenService.issueAccessToken: signed with the module's options.
issueAccessToken(username, jwt, nowMs) ==
  sign(username, JwtModuleOptions(jwt).secret,
       JwtModuleOptions(jwt).signOptions.expiresIn, nowMs)

\* TokenService.issueRefreshToken: the lifetime is the refresh one.
issueRefreshToken(username, jwt, nowMs) ==
  sign(username, JwtModuleOptions(jwt).secret, jwt.refreshTokenExpiresIn, nowMs)

\* TokenService.decodeAccessToken: signature and structure only.
decodeAccessToken(tok, jwt) ==
  IF tok.kind = "jwt" /\ tok.sig = JwtModuleOptions(jwt).secret
  THEN Payload(tok.username, tok.exp)
  ELSE Undefined

IssueAccessToken(username) ==
  /\ codec.pc = "idle"
  /\ codec' = [codec EXCEPT !.pc = "issued", !.class = "access",
                            !.username = username, !.issuedAt = clock,
                            !.token = issueAccessToken(username, codec.jwt, clock)]
  /\ UNCHANGED <<config, environment, guard, loggedOut, pc, req, token, decodeArg, jwtPayload,
                 now, lookupArg, liveRecord, user, outcome, trace>>

IssueRefreshToken(username) ==
  /\ codec.pc = "idle"
  /\ codec' = [codec EXCEPT !.pc = "issued", !.class = "refresh",
                            !.username = username, !.issuedAt = clock,
                            !.token = issueRefreshToken(username, codec.jwt, clock)]
  /\ UNCHANGED <<config, environment, guard, loggedOut, pc, req, token, decodeArg, jwtPayload,
                 now, lookupArg, liveRecord, user, outcome, trace>>

\* The issued token is decoded by the decoder of its class.
DecodeIssued ==
  /\ codec.pc = "issued"
  /\ codec' = [codec EXCEPT
                 !.pc = "decoded",
                 !.payload = IF codec.class = "access"
                             THEN decodeAccessToken(codec.token, codec.jwt)
                             ELSE decodeRefreshToken(codec.token, codecChecksExpiry, clock)]
  /\ UNCHANGED <<config, environment, guard, loggedOut, pc, req, token, decodeArg, jwtPayload,
                 now, lookupArg, liveRecord, user, outcome, trace>>

CodecLeave ==
  /\ codec.pc = "decoded"
  /\ codec' = CodecIdle(codec.jwt)
  /\ UNCHANGED <<config, environment, guard, loggedOut, pc, req, token, decodeArg, jwtPayload,
                 now, lookupArg, liveRecord, user, outcome, trace>>

\* ------------------------------------------------------------------- Init
InitStrategy ==
  /\ authDefinitions \in [transferTokenMethod : AuthTransferTokenMethod,
                          redactedFields : RedactedFieldsOptions]
  /\ jwtFromRequest = authDefinitions.transferTokenMethod
  /\ codecChecksExpiry \in BOOLEAN
  /\ clock = 0
  /\ directory \in {d \in [Usernames -> {NoUser} \cup {UserRecord(u, 1) : u \in Usernames}] :
                      \A u \in Usernames : d[u] \in {NoUser, UserRecord(u, 1)}}
  /\ pc = [r \in Reqs |-> "idle"]
  /\ req = [r \in Reqs |-> NoRequest]
  /\ token = [r \in Reqs |-> Undefined]
  /\ decodeArg = [r \in Reqs |-> NotCalled]
  /\ jwtPayload = [r \in Reqs |-> Undefined]
  /\ now = [r \in Reqs |-> NoTime]
  /\ lookupArg = [r \in Reqs |-> NoUsername]
  /\ liveRecord = [r \in Reqs |-> NoUser]
  /\ user = [r \in Reqs |-> NoUser]
  /\ outcome = [r \in Reqs |-> NoOutcome]
  /\ trace = [r \in Reqs |-> NoTrace]

Init ==
  /\ InitStrategy
  /\ guard = NoGuard
  /\ loggedOut = {}
  /\ codec = NoCodec

\* ---------------------------------------------------------------- actions
\* The requests other than r that have ended and are still on record: the
\* token each presented and how it ended.
Ended(r) ==
  {[slot |-> q, token |-> token[q], how |-> outcome[q].kind] :
     q \in {x \in Reqs \ {r} : pc[x] = "done"}}

\* Fault variant: a token that an earlier request presented is refused.
AuthenticateOnce(r, request) ==
  /\ pc[r] = "idle"
  /\ LET tok == ExtractToken(jwtFromRequest, request)
         payload == IF Truthy(tok) /\ tok \notin {e.token : e \in Ended(r)}
                    THEN decodeRefreshToken(tok, codecChecksExpiry, clock)
                    ELSE Undefined
     IN /\ req' = [req EXCEPT ![r] = request]
        /\ token' = [token EXCEPT ![r] = tok]
        /\ decodeArg' = [decodeArg EXCEPT ![r] = IF Truthy(tok) THEN tok ELSE NotCalled]
        /\ jwtPayload' = [jwtPayload EXCEPT ![r] = payload]
        /\ now' = [now EXCEPT ![r] = clock]
        /\ IF Truthy(payload) /\ ~isExpired(payload, clock)
           THEN /\ pc' = [pc EXCEPT ![r] = "lookup"]
                /\ lookupArg' = [lookupArg EXCEPT ![r] = LookupUsername(payload)]
           ELSE /\ pc' = [pc EXCEPT ![r] = "resume"]
                /\ UNCHANGED lookupArg
        /\ trace' = [trace EXCEPT ![r] =
                       [terminal |-> <<>>,
                        decodes |-> IF Truthy(tok) THEN 1 ELSE 0,
                        lookups |-> IF Truthy(payload) /\ ~isExpired(payload, clock)
                                    THEN 1 ELSE 0,
                        prior |-> Ended(r)]]
  /\ UNCHANGED <<config, engine, environment, liveRecord, user, outcome>>

\* Fault variant: the token of a holder who logged out is refused.
AuthenticateRevoked(r, request) ==
  /\ pc[r] = "idle"
  /\ LET tok == ExtractToken(jwtFromRequest, request)
         payload == IF Truthy(tok) /\ tok \notin loggedOut
                    THEN decodeRefreshToken(tok, codecChecksExpiry, clock)
                    ELSE Undefined
     IN /\ req' = [req EXCEPT ![r] = request]
        /\ token' = [token EXCEPT ![r] = tok]
        /\ decodeArg' = [decodeArg EXCEPT ![r] = IF Truthy(tok) THEN tok ELSE NotCalled]
        /\ jwtPayload' = [jwtPayload EXCEPT ![r] = payload]
        /\ now' = [now EXCEPT ![r] = clock]
        /\ IF Truthy(payload) /\ ~isExpired(payload, clock)
           THEN /\ pc' = [pc EXCEPT ![r] = "lookup"]
                /\ lookupArg' = [lookupArg EXCEPT ![r] = LookupUsername(payload)]
           ELSE /\ pc' = [pc EXCEPT ![r] = "resume"]
                /\ UNCHANGED lookupArg
        /\ trace' = [trace EXCEPT ![r] =
                       [terminal |-> <<>>,
                        decodes |-> IF Truthy(tok) THEN 1 ELSE 0,
                        lookups |-> IF Truthy(payload) /\ ~isExpired(payload, clock)
                                    THEN 1 ELSE 0,
                        prior |-> Ended(r)]]
  /\ UNCHANGED <<config, engine, environment, liveRecord, user, outcome>>

\* authenticate(req) up to the await of line 80: extraction, decoding, and
\* inside validate() the expiry test and the subscription of the lookup.
Authenticate(r, request) ==
  /\ pc[r] = "idle"
  /\ LET tok == ExtractToken(jwtFromRequest, request)
         payload == IF Truthy(tok)
                    THEN decodeRefreshToken(tok, codecChecksExpiry, clock)
                    ELSE Undefined
     IN /\ req' = [req EXCEPT ![r] = request]
        /\ token' = [token EXCEPT ![r] = tok]
        /\ decodeArg' = [decodeArg EXCEPT ![r] = IF Truthy(tok) THEN tok ELSE NotCalled]
        /\ jwtPayload' = [jwtPayload EXCEPT ![r] = payload]
        /\ now' = [now EXCEPT ![r] = clock]
        /\ IF Truthy(payload) /\ ~isExpired(payload, clock)
           THEN /\ pc' = [pc EXCEPT ![r] = "lookup"]
                /\ lookupArg' = [lookupArg EXCEPT ![r] = LookupUsername(payload)]
           ELSE /\ pc' = [pc EXCEPT ![r] = "resume"]
                /\ UNCHANGED lookupArg
        /\ trace' = [trace EXCEPT ![r] =
                       [terminal |-> <<>>,
                        decodes |-> IF Truthy(tok) THEN 1 ELSE 0,
                        lookups |-> IF Truthy(payload) /\ ~isExpired(payload, clock)
                                    THEN 1 ELSE 0,
                        prior |-> Ended(r)]]
  /\ UNCHANGED <<config, engine, environment, liveRecord, user, outcome>>

\* Fault variant: the redaction deletes the fields from the directory's own
\* record instead of from a copy.
DirectoryRespondInPlace(r) ==
  /\ pc[r] = "lookup"
  /\ liveRecord' = [liveRecord EXCEPT ![r] = directory[jwtPayload[r].username]]
  /\ user' = [user EXCEPT ![r] =
                RedactPipe(authDefinitions.redactedFields, directory[lookupArg[r]])]
  /\ directory' = [directory EXCEPT ![lookupArg[r]] =
                     RedactPipe(authDefinitions.redactedFields, @)]
  /\ pc' = [pc EXCEPT ![r] = "resume"]
  /\ UNCHANGED <<config, engine, clock, req, token, decodeArg, jwtPayload, now,
                 lookupArg, outcome, trace>>

\* The observable of getAuthUserByUsername emits the record (or undefined),
\* which passes through the redaction map; validate() resolves with it.
DirectoryRespond(r) ==
  /\ pc[r] = "lookup"
  /\ liveRecord' = [liveRecord EXCEPT ![r] = directory[jwtPayload[r].username]]
  /\ user' = [user EXCEPT ![r] =
                RedactPipe(authDefinitions.redactedFields, directory[lookupArg[r]])]
  /\ pc' = [pc EXCEPT ![r] = "resume"]
  /\ UNCHANGED <<config, engine, environment, req, token, decodeArg, jwtPayload, now,
                 lookupArg, outcome, trace>>

\* The observable errors instead: lastValueFrom rejects.
DirectoryFail(r) ==
  /\ pc[r] = "lookup"
  /\ liveRecord' = [liveRecord EXCEPT ![r] = LookupError]
  /\ user' = [user EXCEPT ![r] = LookupError]
  /\ pc' = [pc EXCEPT ![r] = "resume"]
  /\ UNCHANGED <<config, engine, environment, req, token, decodeArg, jwtPayload, now,
                 lookupArg, outcome, trace>>

\* Fault variant: the resolved user is kept in a field of the strategy, where
\* the requests overwrite each other's.
ResumeShared(r) ==
  /\ pc[r] = "resume"
  /\ \E q \in {x \in Reqs : pc[x] \in {"resume", "done"}} :
       /\ outcome' = [outcome EXCEPT ![r] = AuthenticateOutcome(jwtPayload[r], user[q])]
       /\ trace' = [trace EXCEPT ![r].terminal =
                       @ \o TerminalCalls(jwtPayload[r], user[q])]
  /\ pc' = [pc EXCEPT ![r] = "done"]
  /\ UNCHANGED <<config, engine, environment, req, token, decodeArg, jwtPayload, now, lookupArg,
                 liveRecord, user>>

\* authenticate() after the await: fail, success, or the rejection.
Resume(r) ==
  /\ pc[r] = "resume"
  /\ outcome' = [outcome EXCEPT ![r] = AuthenticateOutcome(jwtPayload[r], user[r])]
  /\ trace' = [trace EXCEPT ![r].terminal =
                  @ \o TerminalCalls(jwtPayload[r], user[r])]
  /\ pc' = [pc EXCEPT ![r] = "done"]
  /\ UNCHANGED <<config, engine, environment, req, token, decodeArg, jwtPayload, now, lookupArg,
                 liveRecord, user>>

\* The request is over; its locals are gone, and so is the record of it.
Complete(r) ==
  /\ pc[r] = "done"
  /\ pc' = [pc EXCEPT ![r] = "idle"]
  /\ req' = [req EXCEPT ![r] = NoRequest]
  /\ token' = [token EXCEPT ![r] = Undefined]
  /\ decodeArg' = [decodeArg EXCEPT ![r] = NotCalled]
  /\ jwtPayload' = [jwtPayload EXCEPT ![r] = Undefined]
  /\ now' = [now EXCEPT ![r] = NoTime]
  /\ lookupArg' = [lookupArg EXCEPT ![r] = NoUsername]
  /\ liveRecord' = [liveRecord EXCEPT ![r] = NoUser]
  /\ user' = [user EXCEPT ![r] = NoUser]
  /\ outcome' = [outcome EXCEPT ![r] = NoOutcome]
  /\ trace' = [q \in Reqs |->
                 IF q = r THEN NoTrace
                 ELSE [trace[q] EXCEPT !.prior = {e \in @ : e.slot # r}]]
  /\ UNCHANGED <<config, engine, environment>>

\* ------------------------------------------------------------ environment
Tick ==
  /\ \E c \in ClockValues : c > clock /\ clock' = c
  /\ UNCHANGED <<config, engine, directory, pc, req, token, decodeArg, jwtPayload, now, lookupArg,
                 liveRecord, user, outcome, trace>>

\* Logout: the response clears the cookie, or the client discards its bearer
\* token; the server keeps no record that the strategy reads.
Logout(tok) ==
  /\ tok \notin loggedOut
  /\ loggedOut' = loggedOut \cup {tok}
  /\ UNCHANGED <<config, environment, guard, codec, pc, req, token, decodeArg,
                 jwtPayload, now, lookupArg, liveRecord, user, outcome, trace>>

\* The directory owner rewrites a user's record.
UpdateUser(u) ==
  /\ directory[u] # NoUser
  /\ directory[u].updatedAt < MaxVer
  /\ directory' = [directory EXCEPT ![u] = UserRecord(u, directory[u].updatedAt + 1)]
  /\ UNCHANGED <<config, engine, clock, pc, req, token, decodeArg, jwtPayload, now, lookupArg,
                 liveRecord, user, outcome, trace>>

\* The directory owner removes a user.
RemoveUser(u) ==
  /\ directory[u] # NoUser
  /\ directory' = [directory EXCEPT ![u] = NoUser]
  /\ UNCHANGED <<config, engine, clock, pc, req, token, decodeArg, jwtPayload, now, lookupArg,
                 liveRecord, user, outcome, trace>>

\* ---------------------------------------------------------- specification
\* Spec follows the requests that pass through one slot, one after another;
\* the other slots stay idle.
First == "r1"

Next ==
  \/ \E request \in Requests : Authenticate(First, request)
  \/ DirectoryRespond(First)
  \/ DirectoryFail(First)
  \/ Resume(First)
  \/ Complete(First)
  \/ Tick
  \/ \E u \in Usernames : UpdateUser(u)
  \/ \E u \in Usernames : RemoveUser(u)

Spec == Init /\ [][Next]_vars

\* SpecConcurrent: every slot takes requests and their steps interleave in
\* any order.  The requests carry their refresh token in the header.
ConcurrentRequests ==
  {MkRequest(Undefined, Undefined, rh, Undefined) :
     rh \in {Jwt(GoodSig, u, MaxExp) : u \in Usernames}}

\* The strategy reads the header and one set of redacted fields is configured.
InitConcurrent ==
  /\ Init
  /\ authDefinitions.transferTokenMethod = BEARER_ONLY
  /\ authDefinitions.redactedFields = {"password"}

NextConcurrent ==
  \/ \E r \in Reqs, request \in ConcurrentRequests : Authenticate(r, request)
  \/ \E r \in Reqs : DirectoryRespond(r)
  \/ \E r \in Reqs : DirectoryFail(r)
  \/ \E r \in Reqs : Resume(r)
  \/ \E r \in Reqs : Complete(r)
  \/ Tick
  \/ \E u \in Usernames : UpdateUser(u)
  \/ \E u \in Usernames : RemoveUser(u)

SpecConcurrent == InitConcurrent /\ [][NextConcurrent]_vars

\* SpecReplay: clients present their refresh tokens again and again, and log
\* out, while the clock runs and users are removed from the directory.
ReplayTokens == {q.headers["refresh-token"] : q \in ConcurrentRequests}

NextReplay ==
  \/ \E r \in Reqs, request \in ConcurrentRequests : Authenticate(r, request)
  \/ \E r \in Reqs : DirectoryRespond(r)
  \/ \E r \in Reqs : Resume(r)
  \/ \E r \in Reqs : Complete(r)
  \/ \E tok \in ReplayTokens : Logout(tok)
  \/ Tick
  \/ \E u \in Usernames : RemoveUser(u)

SpecReplay == InitConcurrent /\ [][NextReplay]_vars

\* SpecGuard: the global guard in front of one configured application.
InitGuard ==
  /\ InitStrategy
  /\ authDefinitions.transferTokenMethod = BOTH
  /\ authDefinitions.redactedFields = {"password"}
  /\ ~codecChecksExpiry
  /\ \A u \in Usernames : directory[u] # NoUser
  /\ guard = NoGuard
  /\ loggedOut = {}
  /\ codec = NoCodec

NextGuard ==
  \/ \E route \in Routes, creds \in Credentials : GuardArrive(route, creds)
  \/ GuardResolve
  \/ GuardEvaluate
  \/ GuardLeave

SpecGuard == InitGuard /\ [][NextGuard]_vars

\* SpecCodec: tokens are issued and decoded under every configured pair of
\* lifetimes while the clock runs.
InitCodec ==
  /\ InitStrategy
  /\ authDefinitions.transferTokenMethod = BOTH
  /\ authDefinitions.redactedFields = {"password"}
  /\ ~codecChecksExpiry
  /\ \A u \in Usernames : directory[u] # NoUser
  /\ guard = NoGuard
  /\ loggedOut = {}
  /\ codec \in {CodecIdle(jwt) : jwt \in JwtDefinitions}

NextCodec ==
  \/ \E u \in Usernames : IssueAccessToken(u)
  \/ \E u \in Usernames : IssueRefreshToken(u)
  \/ DecodeIssued
  \/ CodecLeave
  \/ Tick

SpecCodec == InitCodec /\ [][NextCodec]_vars

TypeOK ==
  /\ clock \in ClockValues
  /\ loggedOut \subseteq RefreshValues
  /\ codec.pc \in {"idle", "issued", "decoded"}
  /\ \A r \in Reqs : pc[r] \in {"idle", "lookup", "resume", "done"}

\* ------------------------------------------------------------- properties
\* Vocabulary of the properties, stated on the raw request and outcome.
IsEmpty(v) == v.kind \in {"undefined", "null", "empty"}
RefreshCookie(r) == req[r].cookies["RefreshToken"]
RefreshHeader(r) == req[r].headers["refresh-token"]
Mode == authDefinitions.transferTokenMethod
Fail401 == [kind |-> "fail", status |-> 401]
Started(r) == pc[r] # "idle"
Done(r) == pc[r] = "done"
WellSigned(tok) == tok.kind = "jwt" /\ tok.sig = "good"
Undecodable(tok) == tok.kind = "malformed" \/ (tok.kind = "jwt" /\ tok.sig # "good")
Denied(r) ==
  /\ outcome[r].kind \notin {"success", "rejected"}
  /\ pc[r] # "lookup"
  /\ Done(r) => outcome[r] = Fail401

\* C1: a request whose extracted token is a correctly signed token with exp
\* earlier than the time of validation is never looked up, never reaches
\* success, and ends in fail(401), whether or not the codec checks expiry.
C1_ExpiredTokenDenied ==
  \A r \in Reqs :
    (Started(r) /\ WellSigned(token[r]) /\ token[r].exp * 1000 < now[r])
      => Denied(r)

\* The expired token passed a codec that does not check expiry, its user is
\* in the directory, and the request ended in fail(401).
C1_Witness ==
  \E r \in Reqs :
    /\ Done(r) /\ WellSigned(token[r]) /\ token[r].exp * 1000 < now[r]
    /\ ~codecChecksExpiry
    /\ jwtPayload[r].kind = "payload"
    /\ directory[token[r].username] # NoUser
    /\ outcome[r] = Fail401

\* C2: a token validated at the instant exp == now is rejected, and a token
\* validated one second before exp is accepted (its user being in the
\* directory).
C2_ExpiryBoundary ==
  \A r \in Reqs :
    (Done(r) /\ WellSigned(token[r])) =>
      /\ (token[r].exp * 1000 = now[r]) => outcome[r].kind # "success"
      /\ (token[r].exp * 1000 = now[r] + 1000 /\ liveRecord[r].kind = "user")
            => outcome[r].kind = "success"

\* C3: a request with no refresh token in a channel that is active for the
\* transfer method, or whose extracted token is malformed or badly signed,
\* ends in fail(401); success is not called and authenticate does not reject.
NoActiveToken(r) ==
  /\ Mode = "cookie" => IsEmpty(RefreshCookie(r))
  /\ Mode = "bearer" => IsEmpty(RefreshHeader(r))
  /\ Mode = "both" => IsEmpty(RefreshCookie(r)) /\ IsEmpty(RefreshHeader(r))

C3_MissingOrInvalidDenied ==
  \A r \in Reqs :
    (Started(r) /\ (NoActiveToken(r) \/ Undecodable(token[r]))) => Denied(r)

\* A forged token naming a user of the directory was extracted and the
\* request ended in fail(401).
C3_Witness ==
  \E r \in Reqs :
    /\ Done(r) /\ Undecodable(token[r]) /\ token[r].kind = "jwt"
    /\ directory[token[r].username] # NoUser
    /\ outcome[r] = Fail401

\* C4: with transfer method cookie the extracted token is the RefreshToken
\* cookie or nothing, whatever the refresh-token header holds; with transfer
\* method bearer it is the refresh-token header or nothing, whatever the
\* cookie holds.
C4_ChannelIsolation ==
  \A r \in Reqs :
    Started(r) =>
      /\ Mode = "cookie" =>
           IF IsEmpty(RefreshCookie(r)) THEN IsEmpty(token[r]) /\ decodeArg[r].kind = "notcalled"
           ELSE token[r] = RefreshCookie(r)
      /\ Mode = "bearer" =>
           IF IsEmpty(RefreshHeader(r)) THEN IsEmpty(token[r]) /\ decodeArg[r].kind = "notcalled"
           ELSE token[r] = RefreshHeader(r)

\* Transfer method cookie, no cookie, a good token of a known user in the
\* header: nothing was extracted and the request ended in fail(401).
C4_Witness ==
  \E r \in Reqs :
    /\ Done(r) /\ Mode = "cookie"
    /\ IsEmpty(RefreshCookie(r))
    /\ WellSigned(RefreshHeader(r))
    /\ directory[RefreshHeader(r).username] # NoUser
    /\ IsEmpty(token[r])
    /\ outcome[r] = Fail401

\* C5: with transfer method both, a non-empty RefreshToken cookie is the
\* token that is extracted and decoded; the refresh-token header is used
\* only when the cookie is absent or empty.
C5_CookiePrecedence ==
  \A r \in Reqs :
    (Started(r) /\ Mode = "both") =>
      /\ ~IsEmpty(RefreshCookie(r)) =>
           token[r] = RefreshCookie(r) /\ decodeArg[r] = RefreshCookie(r)
      /\ (IsEmpty(RefreshCookie(r)) /\ ~IsEmpty(RefreshHeader(r))) =>
           token[r] = RefreshHeader(r) /\ decodeArg[r] = RefreshHeader(r)
      /\ (IsEmpty(RefreshCookie(r)) /\ IsEmpty(RefreshHeader(r))) =>
           IsEmpty(token[r]) /\ decodeArg[r].kind = "notcalled"

\* Both channels carry good tokens of different users and the cookie's user
\* is the one that was resolved.
C5_Witness ==
  \E r \in Reqs :
    /\ Done(r) /\ Mode = "both"
    /\ WellSigned(RefreshCookie(r)) /\ WellSigned(RefreshHeader(r))
    /\ RefreshCookie(r).username # RefreshHeader(r).username
    /\ decodeArg[r] = RefreshCookie(r)
    /\ outcome[r].kind = "success"
    /\ outcome[r].user.username = RefreshCookie(r).username

\* C6: decodeRefreshToken only ever receives the RefreshToken cookie or the
\* refresh-token header, and a request that carries no refresh token in
\* either of them is denied with 401 even when it carries an access token.
C6_AccessTokenNotConsumed ==
  \A r \in Reqs :
    Started(r) =>
      /\ decodeArg[r] \in {NotCalled, RefreshCookie(r), RefreshHeader(r)}
      /\ (IsEmpty(RefreshCookie(r)) /\ IsEmpty(RefreshHeader(r))) =>
           decodeArg[r] = NotCalled /\ Denied(r)

\* A request with a good access token of a known user and no refresh token
\* ended in fail(401).
C6_Witness ==
  \E r \in Reqs :
    /\ Done(r)
    /\ IsEmpty(RefreshCookie(r)) /\ IsEmpty(RefreshHeader(r))
    /\ \/ WellSigned(req[r].cookies["AccessToken"])
       \/ WellSigned(req[r].headers["authorization"])
    /\ directory["alice"] # NoUser
    /\ Mode = "both"
    /\ outcome[r] = Fail401

\* C7: the user handed to success is the record the directory held for the
\* payload's username when it answered the lookup: it carries that username
\* and every field of it equals the field of that record, also when the
\* record was rewritten after the token was made.
C7_LiveUserResolved ==
  \A r \in Reqs :
    outcome[r].kind = "success" =>
      /\ liveRecord[r].kind = "user"
      /\ liveRecord[r].username = jwtPayload[r].username
      /\ outcome[r].user.username = jwtPayload[r].username
      /\ \A f \in DOMAIN outcome[r].user : outcome[r].user[f] = liveRecord[r][f]

\* success was called with a record that was rewritten after the start, and
\* the directory has been rewritten or emptied again since.
C7_Witness ==
  \E r \in Reqs :
    /\ outcome[r].kind = "success"
    /\ outcome[r].user.updatedAt = 2
    /\ outcome[r].user.username = "bob"
    /\ directory["alice"] # NoUser
    /\ directory["bob"] = NoUser

\* C8: the user handed to success has none of the configured redactedFields,
\* for every transfer method, and a configured field that the record does
\* not have does not keep a found user from reaching success.
C8_RedactedFieldsHidden ==
  \A r \in Reqs :
    /\ outcome[r].kind = "success" =>
         (DOMAIN outcome[r].user) \cap authDefinitions.redactedFields = {}
    /\ (Done(r) /\ liveRecord[r].kind = "user") => outcome[r].kind = "success"

\* success was called while a field unknown to the record was configured.
C8_Witness ==
  \E r \in Reqs :
    /\ outcome[r].kind = "success"
    /\ "salt" \in authDefinitions.redactedFields
    /\ "password" \in DOMAIN liveRecord[r]
    /\ "password" \notin DOMAIN outcome[r].user
    /\ "updatedAt" \in DOMAIN outcome[r].user

\* C9: every denial is the same call fail(401): a request with no token, with
\* an undecodable token, with a token whose exp is before the validation
\* instant, or with a token whose user the directory does not have ends in
\* exactly fail(401), and no fail carries anything else.
UserNotFound(r) == lookupArg[r] # "-" /\ pc[r] \in {"resume", "done"} /\ liveRecord[r] = NoUser

C9_DenialsIndistinguishable ==
  \A r \in Reqs :
    /\ outcome[r].kind = "fail" => outcome[r] = Fail401
    /\ ( Done(r)
         /\ \/ IsEmpty(token[r])
            \/ Undecodable(token[r])
            \/ WellSigned(token[r]) /\ token[r].exp * 1000 < now[r]
            \/ UserNotFound(r) )
       => outcome[r] = Fail401

\* A good, unexpired token whose user the directory no longer has ended in
\* fail(401).
C9_Witness ==
  \E r \in Reqs :
    /\ Done(r) /\ WellSigned(token[r]) /\ now[r] < token[r].exp * 1000
    /\ UserNotFound(r)
    /\ outcome[r] = Fail401

\* C10: when the directory lookup fails with an error, neither fail nor
\* success is called: authenticate rejects.
C10_LookupErrorPropagates ==
  \A r \in Reqs :
    liveRecord[r].kind = "error" =>
      /\ outcome[r].kind \notin {"fail", "success"}
      /\ Done(r) => outcome[r] = [kind |-> "rejected"]

\* The lookup of a known user failed and authenticate rejected.
C10_Witness ==
  \E r \in Reqs :
    /\ Done(r) /\ liveRecord[r].kind = "error"
    /\ directory[jwtPayload[r].username] # NoUser
    /\ outcome[r].kind = "rejected"

\* C11 (as stated): every request that ends has called exactly one of
\* success and fail, exactly once, after at most one decodeRefreshToken call
\* and at most one directory lookup.
C11_ExactlyOneTerminalCall ==
  \A r \in Reqs :
    Done(r) =>
      /\ Len(trace[r].terminal) = 1
      /\ trace[r].terminal[1].kind \in {"success", "fail"}
      /\ trace[r].decodes <= 1
      /\ trace[r].lookups <= 1

\* C11 (amended): a request never calls success or fail more than once nor
\* both, makes at most one decodeRefreshToken call and at most one directory
\* lookup, and when it ends it has called exactly one of success and fail,
\* unless its directory lookup failed with an error, in which case it has
\* called neither and authenticate rejected.
C11_AtMostOneTerminalCall ==
  \A r \in Reqs :
    /\ Len(trace[r].terminal) <= 1
    /\ trace[r].decodes <= 1
    /\ trace[r].lookups <= 1
    /\ ~Done(r) => trace[r].terminal = <<>>
    /\ Done(r) =>
         IF liveRecord[r].kind = "error"
         THEN trace[r].terminal = <<>> /\ outcome[r].kind = "rejected"
         ELSE /\ Len(trace[r].terminal) = 1
              /\ trace[r].terminal[1] = outcome[r]
              /\ outcome[r].kind \in {"success", "fail"}

\* A denied request that decoded a token and looked its user up has called
\* fail once and nothing else.
C11_Witness ==
  \E r \in Reqs :
    /\ Done(r)
    /\ trace[r].decodes = 1 /\ trace[r].lookups = 1
    /\ trace[r].terminal = <<[kind |-> "fail", status |-> 401]>>

\* C12: when a request presents the token of a request that ended before it
\* began, the token is unexpired at both validations, neither lookup failed
\* with an error, and the directory record of the token's user is still the
\* one the first validation saw, both requests end with the same call: the
\* same decision and the same user.
Unexpired(r) == WellSigned(token[r]) /\ now[r] < token[r].exp * 1000
BeganAfter(r2, r1) ==
  /\ r1 # r2
  /\ [slot |-> r1, token |-> token[r1], how |-> outcome[r1].kind] \in trace[r2].prior

C12_ValidationIdempotent ==
  \A r1 \in Reqs, r2 \in Reqs :
    ( /\ Done(r1) /\ Done(r2) /\ BeganAfter(r2, r1)
      /\ token[r1] = token[r2]
      /\ Unexpired(r1) /\ Unexpired(r2)
      /\ liveRecord[r1].kind # "error" /\ liveRecord[r2].kind # "error"
      /\ directory[token[r1].username] = liveRecord[r1] )
    => outcome[r2] = outcome[r1]

\* The same token was accepted twice, at different times, for the same user.
C12_Witness ==
  \E r1 \in Reqs, r2 \in Reqs :
    /\ Done(r1) /\ Done(r2) /\ BeganAfter(r2, r1)
    /\ token[r1] = token[r2]
    /\ Unexpired(r1) /\ Unexpired(r2)
    /\ now[r1] # now[r2]
    /\ directory[token[r1].username] = liveRecord[r1]
    /\ outcome[r1].kind = "success"
    /\ outcome[r2] = outcome[r1]

\* C13: however the steps of the requests interleave, a request that ended
\* has the outcome that its own token, the clock at its own validation and
\* the directory's answer to its own lookup determine, as if it had been
\* handled alone.
OwnToken(r) ==
  CASE Mode = "cookie" -> RefreshCookie(r)
    [] Mode = "bearer" -> RefreshHeader(r)
    [] Mode = "both" -> IF IsEmpty(RefreshCookie(r)) THEN RefreshHeader(r)
                        ELSE RefreshCookie(r)

HandledAlone(r) ==
  LET tok == OwnToken(r)
      passes == /\ WellSigned(tok)
                /\ ~(now[r] > tok.exp * 1000)
                /\ ~(codecChecksExpiry /\ (now[r] \div 1000) >= tok.exp)
  IN IF liveRecord[r].kind = "error" THEN [kind |-> "rejected"]
     ELSE IF passes /\ liveRecord[r].kind = "user"
               /\ liveRecord[r].username = tok.username
          THEN [kind |-> "success",
                user |-> [f \in (DOMAIN liveRecord[r]) \ authDefinitions.redactedFields
                            |-> liveRecord[r][f]]]
          ELSE Fail401

C13_NoInterference ==
  \A r \in Reqs : Done(r) => outcome[r] = HandledAlone(r)

\* Two requests for different users overlapped (neither had ended when the
\* other began) and each got its own user.
C13_Witness ==
  \E r1 \in Reqs, r2 \in Reqs :
    /\ Done(r1) /\ Done(r2)
    /\ trace[r1].prior = {} /\ trace[r2].prior = {}
    /\ outcome[r1].kind = "success" /\ outcome[r2].kind = "success"
    /\ outcome[r1].user.username = "alice"
    /\ outcome[r2].user.username = "bob"
    /\ outcome[r1].user.updatedAt # outcome[r2].user.updatedAt

\* C14: no step changes the configuration or the transfer method the
\* extractors captured at construction, and a step of a request (any step
\* that moves a request's position) leaves every directory record as it was.
C14_ReadOnly ==
  [][ /\ authDefinitions' = authDefinitions
      /\ jwtFromRequest' = jwtFromRequest
      /\ jwtFromRequest' = authDefinitions'.transferTokenMethod
      /\ (pc' # pc) => (directory' = directory) ]_vars

\* A request ended in success with a redacted user while the directory
\* still holds the full record and the extractors their transfer method.
C14_Witness ==
  \E r \in Reqs :
    /\ Done(r) /\ outcome[r].kind = "success"
    /\ "password" \notin DOMAIN outcome[r].user
    /\ directory[outcome[r].user.username] = liveRecord[r]
    /\ "password" \in DOMAIN directory[outcome[r].user.username]
    /\ jwtFromRequest = authDefinitions.transferTokenMethod

HasUser(o) == o.user.kind = "user" /\ o.user.username \in Usernames

C17_AbsentUserDenied ==
  \A r \in Reqs :
    /\ (Unexpired(r) /\ UserNotFound(r)) =>
         /\ user[r] = NoUser
         /\ \A i \in 1..Len(trace[r].terminal) : trace[r].terminal[i] = Fail401
         /\ Done(r) => trace[r].terminal = <<Fail401>>
    /\ \A i \in 1..Len(trace[r].terminal) :
         trace[r].terminal[i].kind = "success" => HasUser(trace[r].terminal[i])
    /\ outcome[r].kind = "success" => HasUser(outcome[r])

\* bob's token decoded and was unexpired, bob was removed from the directory
\* before the lookup was answered, and the request called fail(401) only.
C17_Witness ==
  \E r \in Reqs :
    /\ Done(r) /\ Unexpired(r) /\ UserNotFound(r)
    /\ lookupArg[r] = "bob" /\ directory["bob"] = NoUser
    /\ jwtPayload[r].kind = "payload"
    /\ trace[r].terminal = <<Fail401>>

\* C18: with transfer mode both, a request whose RefreshToken cookie holds a
\* non-empty token that does not decode or is expired, and whose
\* refresh-token header holds a well-signed unexpired token, is denied with
\* 401: the one decodeRefreshToken call it makes is on the cookie token, the
\* header token is never decoded, and no user is looked up.
InvalidOrExpired(tok, nowMs) ==
  \/ Undecodable(tok)
  \/ WellSigned(tok) /\ tok.exp * 1000 < nowMs

CookieFailsHeaderGood(r) ==
  /\ Started(r) /\ Mode = "both"
  /\ ~IsEmpty(RefreshCookie(r))
  /\ InvalidOrExpired(RefreshCookie(r), now[r])
  /\ WellSigned(RefreshHeader(r)) /\ now[r] < RefreshHeader(r).exp * 1000

C18_WitnessExpired ==
  \E r \in Reqs :
    /\ Done(r) /\ CookieFailsHeaderGood(r)
    /\ WellSigned(RefreshCookie(r))
    /\ RefreshCookie(r).username = RefreshHeader(r).username
    /\ decodeArg[r] = RefreshCookie(r)
    /\ outcome[r] = Fail401

LookupIssued(r) ==
  trace[r].lookups > 0 \/ lookupArg[r] # "-" \/ pc[r] = "lookup"

C19_LookupOnlyAfterChecks ==
  \A r \in Reqs :
    /\ LookupIssued(r) =>
         /\ Started(r)
         /\ ~IsEmpty(token[r]) /\ decodeArg[r] = token[r] /\ trace[r].decodes = 1
         /\ jwtPayload[r].kind = "payload"
         /\ ~(now[r] > jwtPayload[r].exp * 1000)
         /\ lookupArg[r] = jwtPayload[r].username
    /\ ( Started(r)
         /\ \/ IsEmpty(token[r])
            \/ Undecodable(token[r])
            \/ WellSigned(token[r]) /\ token[r].exp * 1000 < now[r] )
       => /\ ~LookupIssued(r)
          /\ liveRecord[r] = NoUser
          /\ user[r].kind # "user"

\* One finished request decoded an expired token and issued no lookup.
C19_Witness ==
  \E r \in Reqs :
    /\ Done(r)
    /\ WellSigned(token[r]) /\ token[r].exp * 1000 < now[r]
    /\ trace[r].decodes = 1 /\ trace[r].lookups = 0
    /\ lookupArg[r] = "-"

\* One request is waiting for the directory after its token decoded and
\* passed the expiry comparison.
C19_WitnessLookup ==
  \E r \in Reqs :
    /\ pc[r] = "lookup" /\ trace[r].lookups = 1
    /\ jwtPayload[r].kind = "payload" /\ now[r] <= jwtPayload[r].exp * 1000

\* C20: a request that presents again a refresh token that an earlier
\* request was accepted with, or whose holder has logged out since, is
\* decoded and looked up like any other when the token is unexpired, and
\* accepted when the directory still has its user; in every case its outcome is the one its token, the clock and the
\* directory's answer determine.
Replayed(r) ==
  \/ token[r] \in loggedOut
  \/ \E e \in trace[r].prior : e.token = token[r] /\ e.how = "success"

C20_NotRevoked ==
  \A r \in Reqs :
    (Done(r) /\ ~IsEmpty(token[r]) /\ Replayed(r)) =>
      /\ Unexpired(r) =>
           /\ jwtPayload[r].kind = "payload" /\ trace[r].lookups = 1
           /\ liveRecord[r].kind = "user" =>
                /\ outcome[r].kind = "success"
                /\ outcome[r].user.username = token[r].username
      /\ outcome[r] = HandledAlone(r)

\* A token that had been accepted once, and whose holder then logged out,
\* was accepted again.
C20_Witness ==
  \E r \in Reqs :
    /\ Done(r) /\ Unexpired(r)
    /\ token[r] \in loggedOut
    /\ \E e \in trace[r].prior : e.token = token[r] /\ e.how = "success"
    /\ outcome[r].kind = "success"
    /\ outcome[r].user.username = token[r].username

====
